---- MODULE Spec2Model ----
(***************************************************************************)
(* AnthropicClient (autogen/oai/anthropic.py): the translation between the *)
(* OpenAI-shaped conversation and the Anthropic message protocol, and the  *)
(* per-client cache of the last tool use.                                  *)
(*                                                                         *)
(* Python values.  A dict is a function on its keys (a record), a list is  *)
(* a sequence.  A Python str that is data is Str(s), a list that can stand *)
(* where a str can is List(xs), None is None: values of different Python   *)
(* types stay comparable.  Dict keys, roles, block types and ids are plain *)
(* strings.                                                                *)
(***************************************************************************)
EXTENDS Naturals, Sequences, FiniteSets, TLC

\* ------------------------------------------------------------------ bounds
\* content blocks in one response
MaxBlocks == 3
\* content blocks one client is handed over its lifetime (specification SpecInbound)
MaxIngested == 4
\* content blocks one client is handed before its requests (specification Spec)
MaxPrimed == 2
\* turns in the `messages` of one request
MaxTurns == 2
MaxPairs == 2

\* ---------------------------------------------------------- Python values
None == [t |-> "none"]
Str(s) == [t |-> "str", s |-> s]
List(xs) == [t |-> "list", xs |-> xs]

EmptyDict == [k \in {} |-> None]
Has(d, k) == k \in DOMAIN d
Put(d, k, v) == [x \in DOMAIN d \cup {k} |-> IF x = k THEN v ELSE d[x]]
Del(d, k) == [x \in DOMAIN d \ {k} |-> d[x]]
Get(d, k, default) == IF Has(d, k) THEN d[k] ELSE default

\* The outcome of a call: a returned value or a raised exception.
Return(v) == [fault |-> "none", value |-> v]
Raise(e) == [fault |-> e, value |-> None]

\* json.dumps of a dict of str to str, kept as its list of (key, value) pairs
RECURSIVE JsonItems(_)
JsonItems(items) ==
    IF items = <<>> THEN ""
    ELSE LET kv == Head(items)
             one == "\"" \o kv[1] \o "\": \"" \o kv[2] \o "\""
         IN IF Len(items) = 1 THEN one ELSE one \o ", " \o JsonItems(Tail(items))

JsonDumps(items) == "{" \o JsonItems(items) \o "}"

\* ---------------------------------------------------------------- clients
Clients == {"A", "B"}

\* ------------------------------------------------- response content blocks
ToolUse1 == [type |-> "tool_use", id |-> "t1", name |-> "search", input |-> << <<"q", "x">> >>]
ToolUse2 == [type |-> "tool_use", id |-> "t2", name |-> "calc", input |-> <<>>]
TextA == [type |-> "text", text |-> Str("a")]
TextB == [type |-> "text", text |-> Str("b")]

ToolUseBlocks == {ToolUse1, ToolUse2}
TextBlocks == {TextA, TextB}

Blocks == ToolUseBlocks \cup TextBlocks

SeqsUpTo(S, n) == UNION { [1..k -> S] : k \in 0..n }

Responses == { [content |-> c] : c \in SeqsUpTo(Blocks, MaxBlocks) }

\* pydantic's model_dump of a tool_use block: the dict of its fields
model_dump(block) == [k \in {"id", "input", "name", "type"} |-> block[k]]

VARIABLES
    TOOL_ENABLED,           \* the module constant: anthropic_version >= "0.23.1"
    last_tooluse_status,    \* per client: self._last_tooluse_status
    ingested,               \* per client: every block handed to message_retrieval, in order
    call,                   \* the call that has just returned or raised: [op, self, arg],
                            \* arg as the caller passed it; op is "idle" between calls
    fault,                  \* "none", or the exception the last call raised
    ret,                    \* what the last call returned (None when it raised)
    params,                 \* the caller's request dict as the last create left it
    endpoint,               \* the transport create called: "none" when it called none
    sent,                   \* the keyword arguments create gave the transport
    caller_messages,        \* the caller's list of turns as the last create left it
    previous                \* what the create before the last one sent, when the last
                            \* one was given the same request dict again

vars == <<TOOL_ENABLED, last_tooluse_status, ingested, call, fault, ret,
          params, endpoint, sent, caller_messages, previous>>

\* ------------------------------------------------------ inbound translator
response_to_openai_message(response) ==
    LET dict_response == model_dump(response)
    IN [content |-> None,
        role |-> "assistant",
        function_call |-> [name |-> dict_response["name"],
                           arguments |-> JsonDumps(dict_response["input"])]]

\* RetrieveLoop keeping the first tool_use block and the first text it sees
RECURSIVE RetrieveLoop_FirstWins(_, _, _)
RetrieveLoop_FirstWins(messages, res, status) ==
    IF messages = <<>> THEN [res |-> res, status |-> status]
    ELSE LET choice == Head(messages)
         IN IF choice.type = "tool_use"
            THEN RetrieveLoop_FirstWins(Tail(messages),
                                        <<response_to_openai_message(choice)>> \o res,
                                        IF Has(status, "tool_use") THEN status
                                        ELSE Put(status, "tool_use", model_dump(choice)))
            ELSE RetrieveLoop_FirstWins(Tail(messages),
                                        Append(res, choice.text),
                                        IF Has(status, "think") THEN status
                                        ELSE Put(status, "think", choice.text))

\* RetrieveLoop appending a tool_use message where it inserts it at the front
RECURSIVE RetrieveLoop_Append(_, _, _)
RetrieveLoop_Append(messages, res, status) ==
    IF messages = <<>> THEN [res |-> res, status |-> status]
    ELSE LET choice == Head(messages)
         IN IF choice.type = "tool_use"
            THEN RetrieveLoop_Append(Tail(messages),
                                     Append(res, response_to_openai_message(choice)),
                                     Put(status, "tool_use", model_dump(choice)))
            ELSE RetrieveLoop_Append(Tail(messages),
                                     Append(res, choice.text),
                                     Put(status, "think", choice.text))

\* the loop of message_retrieval under TOOL_ENABLED
RECURSIVE RetrieveLoop(_, _, _)
RetrieveLoop(messages, res, status) ==
    IF messages = <<>> THEN [res |-> res, status |-> status]
    ELSE LET choice == Head(messages)
         IN IF choice.type = "tool_use"
            THEN RetrieveLoop(Tail(messages),
                              <<response_to_openai_message(choice)>> \o res,
                              Put(status, "tool_use", model_dump(choice)))
            ELSE RetrieveLoop(Tail(messages),
                              Append(res, choice.text),
                              Put(status, "think", choice.text))

\* the comprehension of message_retrieval without TOOL_ENABLED: it reads
\* choice.message of every element, which a content block does not have
RECURSIVE LegacyRetrieve(_)
LegacyRetrieve(messages) ==
    IF messages = <<>> THEN Return(<<>>)
    ELSE LET choice == Head(messages)
             rest == LegacyRetrieve(Tail(messages))
         IN IF ~Has(choice, "message") THEN Raise("AttributeError")
            ELSE IF rest.fault # "none" THEN rest
            ELSE Return(<<IF choice.message.function_call # None
                          THEN choice.text
                          ELSE choice.message.content>> \o rest.value)

message_retrieval(status, response) ==
    LET messages == response.content
    IN IF Len(messages) = 0 THEN [out |-> Return(<<None>>), status |-> status]
       ELSE IF TOOL_ENABLED
            THEN LET r == RetrieveLoop(messages, <<>>, status)
                 IN [out |-> Return(r.res), status |-> r.status]
            ELSE [out |-> LegacyRetrieve(messages), status |-> status]

\* -------------------------------------------------------- tool-use cache
\* restore_last_tooluse_status leaving the cached think text out
restore_last_tooluse_status_NoThink(status) ==
    IF ~Has(status, "tool_use") THEN Raise("KeyError")
    ELSE Return([role |-> "assistant", content |-> List(<<status["tool_use"]>>)])

restore_last_tooluse_status(status) ==
    LET think == IF Has(status, "think")
                 THEN <<[type |-> "text", text |-> status["think"]]>>
                 ELSE <<>>
    IN IF ~Has(status, "tool_use") THEN Raise("KeyError")
       ELSE Return([role |-> "assistant",
                    content |-> List(think \o <<status["tool_use"]>>)])

\* return_function_call_result reading the cache with a default, so that an
\* empty cache gives a block addressed to nothing
return_function_call_result_Defaulted(status, result) ==
    Return([role |-> "user",
            content |-> List(<<[type |-> "tool_result",
                                tool_use_id |-> IF Has(status, "tool_use")
                                                THEN status["tool_use"]["id"]
                                                ELSE "",
                                content |-> result]>>)])

\* return_function_call_result addressing the tool by its name, not its id
return_function_call_result_ByName(status, result) ==
    IF ~Has(status, "tool_use") THEN Raise("KeyError")
    ELSE Return([role |-> "user",
                 content |-> List(<<[type |-> "tool_result",
                                     tool_use_id |-> status["tool_use"]["name"],
                                     content |-> result]>>)])

return_function_call_result(status, result) ==
    IF ~Has(status, "tool_use") THEN Raise("KeyError")
    ELSE Return([role |-> "user",
                 content |-> List(<<[type |-> "tool_result",
                                     tool_use_id |-> status["tool_use"]["id"],
                                     content |-> result]>>)])


\* ------------------------------------------------------------ cost, usage
\* config["model"] of each client
ConfigModel == [c \in Clients |-> IF c = "A" THEN "claude-3-opus-20240229" ELSE "claude-x"]

\* openai_utils.ANTHROPIC_PRICE1MM: model -> price per million tokens
ANTHROPIC_PRICE1MM ==
    [m \in {"claude-3-opus-20240229"} |-> [input |-> 15, output |-> 75]]

\* An amount of money, kept as its count of millionths: value * price /
\* 1_000_000 summed over input and output is Amount(sum of value * price).
Amount(millionths) == [t |-> "amount", millionths |-> millionths]

\* cost summing over the input tokens only
cost_InputOnly(self, response) ==
    LET tokens == [input |-> IF response.usage # None
                             THEN response.usage.input_tokens ELSE 0]
    IN IF ~Has(ANTHROPIC_PRICE1MM, ConfigModel[self]) THEN Return(Amount(0))
       ELSE LET price_per_million == ANTHROPIC_PRICE1MM[ConfigModel[self]]
            IN Return(Amount(tokens["input"] * price_per_million["input"]))

cost(self, response) ==
    LET tokens == [input |-> IF response.usage # None
                             THEN response.usage.input_tokens ELSE 0,
                   output |-> IF response.usage # None
                              THEN response.usage.output_tokens ELSE 0]
    IN IF ~Has(ANTHROPIC_PRICE1MM, ConfigModel[self]) THEN Return(Amount(0))
       ELSE LET price_per_million == ANTHROPIC_PRICE1MM[ConfigModel[self]]
            IN Return(Amount(tokens["input"] * price_per_million["input"]
                             + tokens["output"] * price_per_million["output"]))

\* get_usage giving the input tokens as the total
get_usage_TotalIsPrompt(response) ==
    Return([prompt_tokens |-> IF response.usage # None
                              THEN response.usage.input_tokens ELSE 0,
            completion_tokens |-> IF response.usage # None
                                  THEN response.usage.output_tokens ELSE 0,
            total_tokens |-> IF response.usage # None
                             THEN response.usage.input_tokens ELSE 0,
            cost |-> IF Has(response, "cost") THEN response.cost ELSE Amount(0),
            model |-> response.model])

\* get_usage leaving the response's `cost` attribute unread
get_usage_CostZero(response) ==
    Return([prompt_tokens |-> IF response.usage # None
                              THEN response.usage.input_tokens ELSE 0,
            completion_tokens |-> IF response.usage # None
                                  THEN response.usage.output_tokens ELSE 0,
            total_tokens |-> IF response.usage # None
                             THEN response.usage.input_tokens + response.usage.output_tokens
                             ELSE 0,
            cost |-> Amount(0),
            model |-> response.model])

get_usage(response) ==
    Return([prompt_tokens |-> IF response.usage # None
                              THEN response.usage.input_tokens ELSE 0,
            completion_tokens |-> IF response.usage # None
                                  THEN response.usage.output_tokens ELSE 0,
            total_tokens |-> IF response.usage # None
                             THEN response.usage.input_tokens + response.usage.output_tokens
                             ELSE 0,
            cost |-> IF Has(response, "cost") THEN response.cost ELSE Amount(0),
            model |-> response.model])

\* ----------------------------------------------------------- schema filter
\* anthropic.types.Message.model_fields
MessageModelFields ==
    {"id", "content", "model", "role", "stop_reason", "stop_sequence", "type", "usage"}

Restrict(d, keys) == [k \in DOMAIN d \cap keys |-> d[k]]

\* What pop_invalid_message_keys returns is <<valid_messages,
\* invalid_message_dict>>, kept here with two more components: the caller's
\* list of turns as the call leaves it, and whether valid_messages are new
\* dicts (TRUE) or the caller's own (FALSE).

\* pop_invalid_message_keys keeping every key of every turn
pop_invalid_message_keys_KeepAll(messages) ==
    IF Len(messages) = 0 THEN Raise("IndexError")
    ELSE Return(<<messages, EmptyDict, messages, TRUE>>)

\* pop_invalid_message_keys popping the keys off the caller's own dicts
pop_invalid_message_keys_InPlace(messages) ==
    LET valid_messages ==
            [i \in 1..Len(messages) |-> Restrict(messages[i], MessageModelFields)]
    IN IF Len(messages) = 0 THEN Raise("IndexError")
       ELSE Return(<<valid_messages,
                     Restrict(messages[Len(messages)],
                              DOMAIN messages[Len(messages)] \ MessageModelFields),
                     valid_messages, FALSE>>)

pop_invalid_message_keys(messages) ==
    LET valid_messages ==
            [i \in 1..Len(messages) |-> Restrict(messages[i], MessageModelFields)]
    IN IF Len(messages) = 0 THEN Raise("IndexError")
       ELSE Return(<<valid_messages,
                     Restrict(messages[Len(messages)],
                              DOMAIN messages[Len(messages)] \ MessageModelFields),
                     messages, TRUE>>)

\* ------------------------------------------------------ declaration formats
RECURSIVE convert_tools_to_functions(_)
convert_tools_to_functions(tools) ==
    IF tools = <<>> THEN <<>>
    ELSE LET tool == Head(tools)
         IN (IF Has(tool, "type") /\ tool["type"] = "function" /\ Has(tool, "function")
             THEN <<tool["function"]>>
             ELSE <<>>) \o convert_tools_to_functions(Tail(tools))

\* What openai_func_to_anthropic returns, with the argument dict as the call
\* leaves it: <<res, openai_func>>.

\* openai_func_to_anthropic renaming the key in the caller's dict, without
\* the copy
openai_func_to_anthropic_NoCopy(openai_func) ==
    IF ~Has(openai_func, "parameters") THEN Raise("KeyError")
    ELSE LET res == Put(Del(openai_func, "parameters"),
                        "input_schema", openai_func["parameters"])
         IN Return(<<res, res>>)

\* openai_func_to_anthropic copying the `parameters` field and keeping it
openai_func_to_anthropic_KeepParameters(openai_func) ==
    IF ~Has(openai_func, "parameters") THEN Raise("KeyError")
    ELSE Return(<<Put(openai_func, "input_schema", openai_func["parameters"]),
                  openai_func>>)

openai_func_to_anthropic(openai_func) ==
    IF ~Has(openai_func, "parameters") THEN Raise("KeyError")
    ELSE Return(<<Put(Del(openai_func, "parameters"),
                      "input_schema", openai_func["parameters"]),
                  openai_func>>)

\* [openai_func_to_anthropic(tool) for tool in tools_configs]: the list, and
\* the dicts of tools_configs as the calls leave them
RECURSIVE ConvertAll(_)
ConvertAll(tools_configs) ==
    IF tools_configs = <<>> THEN Return(<<<<>>, <<>>>>)
    ELSE LET one == openai_func_to_anthropic(Head(tools_configs))
             rest == ConvertAll(Tail(tools_configs))
         IN IF one.fault # "none" THEN one
            ELSE IF rest.fault # "none" THEN rest
            ELSE Return(<<<<one.value[1]>> \o rest.value[1],
                          <<one.value[2]>> \o rest.value[2]>>)

\* The dicts convert_tools_to_functions took out of `tools` are the dicts in
\* `tools`: what happens to them shows in the caller's `tools`.
RECURSIVE SameObjects(_, _)
SameObjects(tools, functions) ==
    IF tools = <<>> THEN <<>>
    ELSE LET tool == Head(tools)
         IN IF Has(tool, "type") /\ tool["type"] = "function" /\ Has(tool, "function")
            THEN <<Put(tool, "function", Head(functions))>>
                 \o SameObjects(Tail(tools), Tail(functions))
            ELSE <<tool>> \o SameObjects(Tail(tools), functions)

\* ----------------------------------------------------- outbound translator
TERMINATE == "I'm done. Please send TERMINATE"

DEFAULT_MAX_TOKENS == 4096

\* what the transport's create returns: opaque here
TransportResponse == [t |-> "response"]

\* set_system keeping a `system` already set
set_system_FirstWins(p, message) ==
    IF Has(p, "system") THEN p ELSE Put(p, "system", message["content"])

\* params["system"] = message["content"]
set_system(p, message) == Put(p, "system", message["content"])

\* substitute_terminate leaving the empty content
substitute_terminate_Unchanged(message) == message

\* message["content"] = "I'm done. Please send TERMINATE"
substitute_terminate(message) == Put(message, "content", Str(TERMINATE))

\* select_completions asking for a declaration, not for the key
select_completions_NonEmpty(p) ==
    IF TOOL_ENABLED /\ Has(p, "functions") /\ p["functions"] # <<>>
    THEN "beta.tools.messages"
    ELSE "messages"

\* the endpoint create picks for the request dict p
select_completions(p) ==
    IF TOOL_ENABLED /\ Has(p, "functions") THEN "beta.tools.messages" ELSE "messages"

\* processed_messages.append(turn), at the front instead
append_processed_Front(processed_messages, turn) == <<turn>> \o processed_messages

\* processed_messages.append(turn)
append_processed(processed_messages, turn) == Append(processed_messages, turn)

\* The loop of create over the turns, from turn i on.  p is the caller's
\* request dict, which the loop writes `system` into; processed_messages is
\* the list built so far; raw_contents is the caller's list of turns, which a
\* write to a turn of valid_messages reaches when the turn is not a new dict.
\* A raised exception leaves p and raw_contents as written so far.
RECURSIVE TranslateLoop(_, _, _, _, _, _, _)
TranslateLoop(status, raw_contents, valid_messages, fresh, i, p, processed_messages) ==
    IF i > Len(valid_messages)
    THEN [fault |-> "none", params |-> p, processed_messages |-> processed_messages,
          raw_contents |-> raw_contents]
    ELSE LET message == valid_messages[i]
             old_message == raw_contents[i]
             stop(e) == [fault |-> e, params |-> p,
                         processed_messages |-> processed_messages,
                         raw_contents |-> raw_contents]
             emit(turn) == TranslateLoop(status, raw_contents, valid_messages, fresh,
                                         i + 1, p,
                                         append_processed(processed_messages, turn))
         IN IF ~Has(message, "role") THEN stop("KeyError")
            ELSE IF message["role"] = "system"
            THEN IF ~Has(message, "content") THEN stop("KeyError")
                 ELSE TranslateLoop(status, raw_contents, valid_messages, fresh, i + 1,
                                    set_system(p, message),
                                    processed_messages)
            ELSE IF message["role"] = "function"
            THEN IF ~Has(message, "content") THEN stop("KeyError")
                 ELSE LET r == return_function_call_result(status, message["content"])
                      IN IF r.fault # "none" THEN stop(r.fault) ELSE emit(r.value)
            ELSE IF Has(old_message, "function_call")
            THEN LET r == restore_last_tooluse_status(status)
                 IN IF r.fault # "none" THEN stop(r.fault) ELSE emit(r.value)
            ELSE IF ~Has(message, "content") THEN stop("KeyError")
            ELSE IF message["content"] = Str("")
            THEN LET written == substitute_terminate(message)
                 IN TranslateLoop(status,
                                  IF fresh THEN raw_contents
                                  ELSE [raw_contents EXCEPT ![i] = written],
                                  valid_messages, fresh, i + 1, p,
                                  append_processed(processed_messages, written))
            ELSE emit(message)

\* create(params): the caller's dict and the caller's list of turns after the
\* call, the endpoint called and the keyword arguments it was given, or the
\* exception raised on the way
create(status, request) ==
    LET p1 == IF Has(request, "tools")
              THEN Put(request, "functions",
                       Get(request, "functions", <<>>)
                           \o convert_tools_to_functions(request["tools"]))
              ELSE request
        failed(e, p, raw) == [fault |-> e, params |-> p, raw_contents |-> raw,
                              endpoint |-> "none", sent |-> None, ret |-> None]
    IN IF ~Has(p1, "messages") THEN failed("KeyError", p1, None)
       ELSE
       LET raw_contents == p1["messages"]
           popped == pop_invalid_message_keys(raw_contents)
       IN IF popped.fault # "none" THEN failed(popped.fault, p1, raw_contents)
          ELSE
          LET loop == TranslateLoop(status, popped.value[3], popped.value[1],
                                    popped.value[4], 1, p1, <<>>)
          IN IF loop.fault # "none" THEN failed(loop.fault, loop.params, loop.raw_contents)
             ELSE
             LET p2 == Put(loop.params, "messages", loop.processed_messages)
                 completions == select_completions(p2)
                 k1 == Put(p2, "stream", FALSE)
             IN IF ~Has(k1, "model_client_cls")
                THEN failed("KeyError", p2, loop.raw_contents)
                ELSE
                LET k2 == Del(k1, "model_client_cls")
                    k3 == Put(k2, "max_tokens", Get(k2, "max_tokens", DEFAULT_MAX_TOKENS))
                    tools_configs == IF Has(k3, "functions")
                                     THEN ConvertAll(k3["functions"])
                                     ELSE Return(<<<<>>, <<>>>>)
                IN IF tools_configs.fault # "none"
                   THEN failed(tools_configs.fault, p2, loop.raw_contents)
                   ELSE
                   LET same == tools_configs.value[2]
                       legacy == IF Has(request, "functions")
                                 THEN Len(request["functions"]) ELSE 0
                       p3 == IF ~Has(p2, "functions") THEN p2
                             ELSE IF ~Has(p2, "tools") THEN Put(p2, "functions", same)
                             ELSE Put(Put(p2, "functions", same), "tools",
                                      SameObjects(p2["tools"],
                                                  SubSeq(same, legacy + 1, Len(same))))
                   IN [fault |-> "none",
                       params |-> p3,
                       raw_contents |-> loop.raw_contents,
                       endpoint |-> completions,
                       sent |-> IF Has(k3, "functions")
                                THEN Put(Del(k3, "functions"), "tools",
                                         tools_configs.value[1])
                                ELSE k3,
                       ret |-> TransportResponse]

\* ----------------------------------------------------------------- actions
\* One call is in flight at a time: the caller takes the outcome of a call
\* (ReturnToCaller) before it makes the next.
Idle == [op |-> "idle", self |-> "A", arg |-> None]

Init ==
    /\ TOOL_ENABLED \in BOOLEAN
    /\ last_tooluse_status = [c \in Clients |-> EmptyDict]
    /\ ingested = [c \in Clients |-> <<>>]
    /\ call = Idle
    /\ fault = "none"
    /\ ret = None
    /\ params = None
    /\ endpoint = "none"
    /\ sent = None
    /\ caller_messages = None
    /\ previous = None

\* self._last_tooluse_status = ..., on a dict every client shares
write_status_Shared(cache, self, status) == [c \in Clients |-> status]

\* self._last_tooluse_status is the client's own dict
write_status(cache, self, status) == [cache EXCEPT ![self] = status]

MessageRetrieval(self, response, limit) ==
    /\ call = Idle
    /\ Len(ingested[self]) + Len(response.content) <= limit
    /\ LET r == message_retrieval(last_tooluse_status[self], response)
       IN /\ last_tooluse_status' = write_status(last_tooluse_status, self, r.status)
          /\ fault' = r.out.fault
          /\ ret' = r.out.value
    /\ ingested' = [ingested EXCEPT ![self] = @ \o response.content]
    /\ call' = [op |-> "message_retrieval", self |-> self, arg |-> response]
    /\ params' = None /\ endpoint' = "none" /\ sent' = None
    /\ caller_messages' = None /\ previous' = None
    /\ UNCHANGED TOOL_ENABLED

RestoreLastTooluseStatus(self) ==
    /\ call = Idle
    /\ LET r == restore_last_tooluse_status(last_tooluse_status[self])
       IN /\ fault' = r.fault
          /\ ret' = r.value
    /\ call' = [op |-> "restore_last_tooluse_status", self |-> self, arg |-> None]
    /\ params' = None /\ endpoint' = "none" /\ sent' = None
    /\ caller_messages' = None /\ previous' = None
    /\ UNCHANGED <<TOOL_ENABLED, last_tooluse_status, ingested>>

ReturnFunctionCallResult(self, result) ==
    /\ call = Idle
    /\ LET r == return_function_call_result(last_tooluse_status[self], result)
       IN /\ fault' = r.fault
          /\ ret' = r.value
    /\ call' = [op |-> "return_function_call_result", self |-> self, arg |-> result]
    /\ params' = None /\ endpoint' = "none" /\ sent' = None
    /\ caller_messages' = None /\ previous' = None
    /\ UNCHANGED <<TOOL_ENABLED, last_tooluse_status, ingested>>

Create(self, request) ==
    /\ call = Idle
    /\ LET r == create(last_tooluse_status[self], request)
       IN /\ fault' = r.fault
          /\ ret' = r.ret
          /\ params' = r.params
          /\ endpoint' = r.endpoint
          /\ sent' = r.sent
          /\ caller_messages' = r.raw_contents
    /\ previous' = None
    /\ call' = [op |-> "create", self |-> self, arg |-> request]
    /\ UNCHANGED <<TOOL_ENABLED, last_tooluse_status, ingested>>

\* create once more with the request dict the last create was given, as that
\* create left it
CreateAgain ==
    /\ call.op = "create"
    /\ fault = "none"
    /\ previous = None
    /\ LET r == create(last_tooluse_status[call.self], params)
       IN /\ fault' = r.fault
          /\ ret' = r.ret
          /\ params' = r.params
          /\ endpoint' = r.endpoint
          /\ sent' = r.sent
          /\ caller_messages' = r.raw_contents
    /\ previous' = sent
    /\ call' = [op |-> "create", self |-> call.self, arg |-> params]
    /\ UNCHANGED <<TOOL_ENABLED, last_tooluse_status, ingested>>

Cost(self, response) ==
    /\ call = Idle
    /\ LET r == cost(self, response)
       IN /\ fault' = r.fault
          /\ ret' = r.value
    /\ call' = [op |-> "cost", self |-> self, arg |-> response]
    /\ params' = None /\ endpoint' = "none" /\ sent' = None
    /\ caller_messages' = None /\ previous' = None
    /\ UNCHANGED <<TOOL_ENABLED, last_tooluse_status, ingested>>

GetUsage(self, response) ==
    /\ call = Idle
    /\ LET r == get_usage(response)
       IN /\ fault' = r.fault
          /\ ret' = r.value
    /\ call' = [op |-> "get_usage", self |-> self, arg |-> response]
    /\ params' = None /\ endpoint' = "none" /\ sent' = None
    /\ caller_messages' = None /\ previous' = None
    /\ UNCHANGED <<TOOL_ENABLED, last_tooluse_status, ingested>>

ReturnToCaller ==
    /\ call # Idle
    /\ call' = Idle
    /\ fault' = "none" /\ ret' = None
    /\ params' = None /\ endpoint' = "none" /\ sent' = None
    /\ caller_messages' = None /\ previous' = None
    /\ UNCHANGED <<TOOL_ENABLED, last_tooluse_status, ingested>>

\* ------------------------------------------------------------------ inputs
Contents == {Str(""), Str("42")}

FunctionCalls ==
    { [name |-> "search", arguments |-> "{\"q\": \"x\"}"],
      [name |-> "calc", arguments |-> "{}"] }

\* the turns a caller sends: OpenAI-shaped, with the bookkeeping fields
\* (function_call, name) the Message schema does not have
Turns ==
    { [role |-> "system", content |-> Str("be brief")],
      [role |-> "system", content |-> Str("")],
      [role |-> "user", content |-> Str("42")],
      [role |-> "user", content |-> Str("")],
      [role |-> "user", content |-> Str("42"), name |-> "bob"],
      [role |-> "assistant", content |-> Str("42")],
      [role |-> "function", content |-> Str("42"), name |-> "search"],
      [role |-> "function", content |-> Str("")],
      [role |-> "assistant", content |-> Str(""),
       function_call |-> [name |-> "search", arguments |-> "{\"q\": \"x\"}"]],
      [role |-> "assistant", content |-> Str("42"),
       function_call |-> [name |-> "calc", arguments |-> "{}"]],
      [role |-> "user", content |-> Str("42"),
       function_call |-> [name |-> "search", arguments |-> "{\"q\": \"x\"}"]] }

MessageLists == SeqsUpTo(Turns, MaxTurns)

Schema == [type |-> "object"]

Functions ==
    { [name |-> "search", description |-> "web search", parameters |-> Schema] }

Tools ==
    { [type |-> "function",
       function |-> [name |-> "calc", description |-> "calculator", parameters |-> Schema]],
      [type |-> "retrieval"] }

BaseRequest == [model |-> "claude-3-opus", model_client_cls |-> "AnthropicClient"]

\* a one-turn request with every combination of `tools`, `functions` and
\* `model_client_cls` present or absent, the lists empty or not
DeclarationRequests ==
    { Restrict(full, keys) :
        full \in { [model |-> "claude-3-opus",
                    model_client_cls |-> "AnthropicClient",
                    messages |-> <<[role |-> "user", content |-> Str("42")]>>,
                    tools |-> t, functions |-> f] :
                       t \in SeqsUpTo(Tools, 1), f \in SeqsUpTo(Functions, 1) },
        keys \in { {"model", "messages"} \cup opt :
                     opt \in SUBSET {"model_client_cls", "tools", "functions"} } }

\* requests declaring several functions in both ways, and one whose
\* declaration has no `parameters`
DeclarationOrderRequests ==
    LET declaration(name) == [name |-> name, description |-> name, parameters |-> Schema]
        functions == <<declaration("search"), declaration("lookup")>>
        tools == <<[type |-> "function", function |-> declaration("calc")],
                   [type |-> "retrieval"],
                   [type |-> "function", function |-> declaration("plot")]>>
        request == Put(BaseRequest, "messages", <<[role |-> "user", content |-> Str("42")]>>)
    IN { Put(Put(request, "functions", functions), "tools", tools),
         Put(request, "functions", functions),
         Put(request, "tools", tools),
         Put(request, "functions", <<declaration("search"), [name |-> "bare"]>>) }

Requests ==
    { Put(BaseRequest, "messages", m) : m \in MessageLists }
        \cup DeclarationRequests \cup DeclarationOrderRequests

\* the requests a caller sends twice
AgainRequests ==
    { Put(BaseRequest, "messages", m) : m \in SeqsUpTo(Turns, 1) }
        \cup DeclarationRequests \cup DeclarationOrderRequests

\* conversations of function calls and their results, up to MaxPairs pairs
PairTurns ==
    { [role |-> "assistant", content |-> Str(""),
       function_call |-> [name |-> "search", arguments |-> "{\"q\": \"x\"}"]],
      [role |-> "function", content |-> Str("42"), name |-> "search"],
      [role |-> "user", content |-> Str("42")] }

PairRequests ==
    { Put(BaseRequest, "messages", m) : m \in SeqsUpTo(PairTurns, 2 * MaxPairs) }

\* the responses that prime the cache before a request: one block each
PrimingResponses == { [content |-> <<b>>] : b \in {ToolUse1, ToolUse2, TextA} }

\* a short conversation of each kind, for the inbound specification
InboundRequests ==
    { Put(BaseRequest, "messages", m) :
        m \in { <<[role |-> "user", content |-> Str("42")]>>,
                <<[role |-> "function", content |-> Str("42"), name |-> "search"]>>,
                <<[role |-> "assistant", content |-> Str(""),
                   function_call |-> [name |-> "search", arguments |-> "{\"q\": \"x\"}"]]>> } }

\* the responses cost and get_usage are given: with usage or without, with
\* the `cost` attribute the caller sets or without
UsageResponses ==
    LET bare == { [model |-> m, usage |-> u] :
                    m \in {"claude-3-opus-20240229", "claude-x"},
                    u \in {None, [input_tokens |-> 100, output_tokens |-> 50],
                           [input_tokens |-> 0, output_tokens |-> 7]} }
    IN bare \cup { Put(r, "cost", Amount(5250)) : r \in bare }

\* ---------------------------------------------------------- specifications
\* The outbound translator: a client primed by a few responses, and every
\* request.
Next ==
    \/ \E response \in PrimingResponses : MessageRetrieval("A", response, MaxPrimed)
    \/ RestoreLastTooluseStatus("A")
    \/ \E result \in Contents : ReturnFunctionCallResult("A", result)
    \/ \E request \in Requests : Create("A", request)
    \/ \E self \in Clients, response \in UsageResponses : Cost(self, response)
    \/ \E self \in Clients, response \in UsageResponses : GetUsage(self, response)
    \/ ReturnToCaller

Spec == Init /\ [][Next]_vars

\* The inbound translator and the cache: every response, a few requests.
NextInbound ==
    \/ \E response \in Responses : MessageRetrieval("A", response, MaxIngested)
    \/ RestoreLastTooluseStatus("A")
    \/ \E result \in Contents : ReturnFunctionCallResult("A", result)
    \/ \E request \in InboundRequests : Create("A", request)
    \/ \E self \in Clients, response \in UsageResponses : Cost(self, response)
    \/ \E self \in Clients, response \in UsageResponses : GetUsage(self, response)
    \/ ReturnToCaller

SpecInbound == Init /\ [][NextInbound]_vars

\* Two clients, their calls interleaved.
NextClients ==
    \/ \E self \in Clients, response \in PrimingResponses :
          MessageRetrieval(self, response, MaxPrimed)
    \/ \E self \in Clients, request \in InboundRequests : Create(self, request)
    \/ ReturnToCaller

SpecClients == Init /\ [][NextClients]_vars

\* Conversations of several function calls.
NextPairs ==
    \/ \E response \in PrimingResponses : MessageRetrieval("A", response, MaxPrimed)
    \/ \E request \in PairRequests : Create("A", request)
    \/ ReturnToCaller

SpecPairs == Init /\ [][NextPairs]_vars

\* A request dict given to create twice.
NextAgain ==
    \/ \E response \in PrimingResponses : MessageRetrieval("A", response, MaxPrimed)
    \/ \E request \in AgainRequests : Create("A", request)
    \/ CreateAgain
    \/ ReturnToCaller

SpecAgain == Init /\ [][NextAgain]_vars

\* ================================================================== claims
\* what the claims read off a state
IsToolUse(block) == block.type = "tool_use"

\* the blocks of a history that are tool_use blocks (text blocks), in order
ToolUsesOf(blocks) == SelectSeq(blocks, IsToolUse)
TextsOf(blocks) == SelectSeq(blocks, LAMBDA b : ~IsToolUse(b))

\* where the translation of turn i of `messages` stands in the list create
\* sends: system turns are not sent
OutIndex(messages, i) == Cardinality({ j \in 1..i : messages[j]["role"] # "system" })

Created == call.op = "create" /\ fault = "none"

\* every declaration of the request has the `parameters` the conversion reads
DeclarationsConvert(request) ==
    LET functions == Get(request, "functions", <<>>)
                     \o convert_tools_to_functions(Get(request, "tools", <<>>))
    IN \A k \in 1..Len(functions) : Has(functions[k], "parameters")

\* C1: once a client with tool support has ingested a tool_use block, create
\* on a non-empty request whose declarations convert returns, and turns
\* every `function` turn with content c into
\* {role: user, content: [{type: tool_result, tool_use_id: id of the last
\* tool_use block handed to message_retrieval, content: c}]}.
C1_FunctionTurnAnswersLastToolUse ==
    ( /\ call.op = "create"
      /\ TOOL_ENABLED
      /\ ToolUsesOf(ingested[call.self]) # <<>>
      /\ Len(call.arg["messages"]) > 0
      /\ Has(call.arg, "model_client_cls")
      /\ DeclarationsConvert(call.arg) )
    => /\ fault = "none"
       /\ \A i \in 1..Len(call.arg["messages"]) :
            LET turn == call.arg["messages"][i]
                uses == ToolUsesOf(ingested[call.self])
            IN turn["role"] = "function"
               => sent["messages"][OutIndex(call.arg["messages"], i)]
                  = [role |-> "user",
                     content |-> List(<<[type |-> "tool_result",
                                         tool_use_id |-> uses[Len(uses)].id,
                                         content |-> turn["content"]]>>)]

C1_Witness ==
    /\ Created
    /\ TOOL_ENABLED
    /\ ingested[call.self] = <<ToolUse1, ToolUse2>>
    /\ Len(call.arg["messages"]) = 2
    /\ call.arg["messages"][2] = [role |-> "function", content |-> Str("42"), name |-> "search"]
    /\ sent["messages"][2]
       = [role |-> "user",
          content |-> List(<<[type |-> "tool_result", tool_use_id |-> "t2",
                              content |-> Str("42")]>>)]

\* the assistant turn the cache stands for
Continuation(status) ==
    [role |-> "assistant",
     content |-> List((IF Has(status, "think")
                       THEN <<[type |-> "text", text |-> status["think"]]>>
                       ELSE <<>>)
                      \o <<status["tool_use"]>>)]

\* C2: a turn that is neither `system` nor `function` and has a
\* function_call field is sent as the assistant turn built from the cache
\* (the think text if cached, then the tool_use block), whatever its own
\* role, content and function_call are.
C2_FunctionCallTurnReplaysCache ==
    Created
    => \A i \in 1..Len(call.arg["messages"]) :
         LET turn == call.arg["messages"][i]
         IN (turn["role"] \notin {"system", "function"} /\ Has(turn, "function_call"))
            => sent["messages"][OutIndex(call.arg["messages"], i)]
               = Continuation(last_tooluse_status[call.self])

C2_Witness ==
    /\ Created
    /\ Has(last_tooluse_status[call.self], "think")
    /\ Len(call.arg["messages"]) = 2
    /\ call.arg["messages"][1]["role"] = "user"
    /\ Has(call.arg["messages"][1], "function_call")
    /\ call.arg["messages"][2]["role"] = "assistant"
    /\ Has(call.arg["messages"][2], "function_call")
    /\ call.arg["messages"][1]["content"] # call.arg["messages"][2]["content"]
    /\ sent["messages"][1] = sent["messages"][2]
    /\ Len(sent["messages"][1]["content"].xs) = 2

\* C3: right after message_retrieval took a response that is exactly one
\* tool_use block B, restore_last_tooluse_status returns
\* {role: assistant, content: [B]}, whatever the client ingested before.
C3_RestoreReturnsOnlyTheBlock ==
    ( /\ call.op = "message_retrieval"
      /\ TOOL_ENABLED
      /\ Len(call.arg.content) = 1
      /\ IsToolUse(call.arg.content[1]) )
    => restore_last_tooluse_status(last_tooluse_status[call.self])
       = Return([role |-> "assistant",
                 content |-> List(<<model_dump(call.arg.content[1])>>)])

\* the cache of every client is what the last tool_use block and the last
\* text block handed to its message_retrieval make it
CacheIsLastIngested ==
    TOOL_ENABLED
    => \A c \in Clients :
         LET uses == ToolUsesOf(ingested[c])
             texts == TextsOf(ingested[c])
             status == last_tooluse_status[c]
         IN /\ DOMAIN status \subseteq {"think", "tool_use"}
            /\ Has(status, "tool_use") <=> uses # <<>>
            /\ Has(status, "think") <=> texts # <<>>
            /\ uses # <<>> => status["tool_use"] = model_dump(uses[Len(uses)])
            /\ texts # <<>> => status["think"] = texts[Len(texts)].text

\* C4: with tool support, the cache's tool_use entry is the last tool_use
\* block of all the responses handed to message_retrieval and its think entry
\* the text of the last text block among them, each absent when there was
\* none; and only message_retrieval changes the cache: no step of create,
\* cost, get_usage, restore_last_tooluse_status or return_function_call_result
\* does.
C4_CacheIsLastIngested ==
    /\ []CacheIsLastIngested
    /\ [][call'.op # "message_retrieval" => last_tooluse_status' = last_tooluse_status]_vars

C4_Witness ==
    /\ call.op = "create"
    /\ TOOL_ENABLED
    /\ ingested[call.self] = <<TextA, ToolUse1, TextB, ToolUse2>>
    /\ last_tooluse_status[call.self] = [think |-> Str("b"), tool_use |-> ToolUse2]

SystemTurns(messages) == { i \in 1..Len(messages) : messages[i]["role"] = "system" }

NoSystemTurnSent == \A k \in 1..Len(sent["messages"]) : sent["messages"][k]["role"] # "system"

\* C5, as stated: every `system` turn of the request has its content in the
\* top-level `system` field of what is sent, and no sent turn is a `system`
\* turn.
C5_EverySystemTurnInSystemField ==
    Created
    => /\ \A i \in SystemTurns(call.arg["messages"]) :
            /\ Has(sent, "system")
            /\ sent["system"] = call.arg["messages"][i]["content"]
       /\ NoSystemTurnSent

\* C5, amended: the top-level `system` field of what is sent holds the
\* content of the last `system` turn of the request, and no sent turn is a
\* `system` turn.
C5_LastSystemTurnInSystemField ==
    Created
    => LET messages == call.arg["messages"]
           sys == SystemTurns(messages)
       IN /\ sys # {}
             => /\ Has(sent, "system")
                /\ \E i \in sys : /\ \A j \in sys : j <= i
                                  /\ sent["system"] = messages[i]["content"]
          /\ sys = {} => ~Has(sent, "system")
          /\ NoSystemTurnSent

C5_Witness ==
    /\ Created
    /\ call.arg["messages"] = <<[role |-> "system", content |-> Str("be brief")],
                                [role |-> "system", content |-> Str("")]>>
    /\ sent["system"] = Str("")
    /\ sent["messages"] = <<>>

\* C6, as stated: every turn with empty-string content that is sent as a turn
\* is sent with the termination sentinel as its content.
C6_EveryEmptyTurnTerminates ==
    Created
    => \A i \in 1..Len(call.arg["messages"]) :
         LET turn == call.arg["messages"][i]
         IN (turn["role"] # "system" /\ turn["content"] = Str(""))
            => sent["messages"][OutIndex(call.arg["messages"], i)]["content"]
               = Str("I'm done. Please send TERMINATE")

\* C6, amended: a turn with empty-string content whose role is neither
\* `system` nor `function` and that has no function_call field is sent with
\* the termination sentinel as its content, its role kept.
C6_EmptyPlainTurnTerminates ==
    Created
    => \A i \in 1..Len(call.arg["messages"]) :
         LET turn == call.arg["messages"][i]
             out == sent["messages"][OutIndex(call.arg["messages"], i)]
         IN ( /\ turn["role"] \notin {"system", "function"}
              /\ ~Has(turn, "function_call")
              /\ turn["content"] = Str("") )
            => /\ out["content"] = Str("I'm done. Please send TERMINATE")
               /\ out["role"] = turn["role"]

C6_Witness ==
    /\ Created
    /\ call.arg["messages"] = <<[role |-> "function", content |-> Str("")],
                                [role |-> "user", content |-> Str("")]>>
    /\ sent["messages"][1]["content"].xs[1]["content"] = Str("")
    /\ sent["messages"][2]
       = [role |-> "user", content |-> Str("I'm done. Please send TERMINATE")]

\* a turn with none of the OpenAI shorthand: not `system`, not `function`, no
\* function_call field, content not the empty string
TargetShaped(turn) ==
    /\ turn["role"] \notin {"system", "function"}
    /\ ~Has(turn, "function_call")
    /\ turn["content"] # Str("")

\* create on the same request with the sent messages as its `messages`
Retranslated == create(last_tooluse_status[call.self],
                       Put(call.arg, "messages", sent["messages"]))

\* C7, as stated: a target-shaped turn is sent equal to the input turn, and
\* translating the sent list again yields the same list.
C7_TargetShapedTurnUnchanged ==
    Created
    => /\ \A i \in 1..Len(call.arg["messages"]) :
            TargetShaped(call.arg["messages"][i])
            => sent["messages"][OutIndex(call.arg["messages"], i)]
               = call.arg["messages"][i]
       /\ Retranslated.fault = "none"
       /\ Retranslated.sent["messages"] = sent["messages"]

\* C7, amended: a target-shaped turn is sent as the input turn restricted to
\* the fields of the Message schema (equal to it when it has no other field),
\* and translating a non-empty sent list again yields the same list.
C7_TargetShapedTurnFiltered ==
    Created
    => /\ \A i \in 1..Len(call.arg["messages"]) :
            LET turn == call.arg["messages"][i]
                out == sent["messages"][OutIndex(call.arg["messages"], i)]
            IN TargetShaped(turn)
               => /\ DOMAIN out = DOMAIN turn
                                  \cap {"id", "content", "model", "role", "stop_reason",
                                        "stop_sequence", "type", "usage"}
                  /\ \A k \in DOMAIN out : out[k] = turn[k]
       /\ sent["messages"] # <<>>
          => /\ Retranslated.fault = "none"
             /\ Retranslated.sent["messages"] = sent["messages"]

C7_Witness ==
    /\ Created
    /\ call.arg["messages"] = <<[role |-> "user", content |-> Str("42"), name |-> "bob"],
                                [role |-> "assistant", content |-> Str("42")]>>
    /\ sent["messages"] = <<[role |-> "user", content |-> Str("42")],
                            [role |-> "assistant", content |-> Str("42")]>>
    /\ Retranslated.sent["messages"] = sent["messages"]

\* the function-call message a tool_use block stands for, with the JSON text
\* of the two inputs written out
FunctionCallMessage(block) ==
    [content |-> None,
     role |-> "assistant",
     function_call |-> [name |-> block.name,
                        arguments |-> IF block.input = << <<"q", "x">> >>
                                      THEN "{\"q\": \"x\"}"
                                      ELSE "{}"]]

\* C8: with tool support, message_retrieval on a non-empty response returns
\* one entry per block: first one function-call message {name, arguments =
\* JSON of the input} for each tool_use block, then the texts of the text
\* blocks in their original order.
C8_FunctionCallsBeforeTexts ==
    (call.op = "message_retrieval" /\ TOOL_ENABLED /\ Len(call.arg.content) > 0)
    => LET content == call.arg.content
           uses == ToolUsesOf(content)
           texts == TextsOf(content)
       IN /\ fault = "none"
          /\ Len(ret) = Len(content)
          /\ \A b \in ToolUseBlocks :
               Cardinality({ k \in 1..Len(uses) : ret[k] = FunctionCallMessage(b) })
               = Cardinality({ j \in 1..Len(uses) : uses[j] = b })
          /\ \A k \in 1..Len(texts) : ret[Len(uses) + k] = texts[k].text

C8_Witness ==
    /\ call.op = "message_retrieval"
    /\ TOOL_ENABLED
    /\ call.arg.content = <<TextA, ToolUse1, TextB>>
    /\ ret = <<[content |-> None, role |-> "assistant",
                function_call |-> [name |-> "search", arguments |-> "{\"q\": \"x\"}"]],
               Str("a"), Str("b")>>

\* C9: without tool support, message_retrieval on a response of text blocks
\* returns the blocks' texts in order and raises nothing.
C9_LegacyReturnsTexts ==
    ( /\ call.op = "message_retrieval"
      /\ ~TOOL_ENABLED
      /\ Len(call.arg.content) > 0
      /\ TextsOf(call.arg.content) = call.arg.content )
    => /\ fault = "none"
       /\ ret = [k \in 1..Len(call.arg.content) |-> call.arg.content[k].text]

\* the declarations a request carries: its `functions` and the entries of
\* its `tools` that wrap a function
Declarations(request) ==
    Len(Get(request, "functions", <<>>))
    + Len(SelectSeq(Get(request, "tools", <<>>),
                    LAMBDA t : Has(t, "type") /\ t["type"] = "function" /\ Has(t, "function")))

\* C10, as stated: with tool support, create calls the tool-capable endpoint
\* exactly when the request carries at least one declaration.
C10_ToolEndpointIffDeclaration ==
    (Created /\ TOOL_ENABLED)
    => (endpoint = "beta.tools.messages" <=> Declarations(call.arg) > 0)

\* C10, amended: with tool support, create calls the tool-capable endpoint
\* exactly when the request has a `tools` or a `functions` field, an empty
\* list included; a request with neither goes to the plain endpoint.
C10_ToolEndpointIffField ==
    (Created /\ TOOL_ENABLED)
    => /\ endpoint \in {"beta.tools.messages", "messages"}
       /\ endpoint = "beta.tools.messages"
          <=> (Has(call.arg, "tools") \/ Has(call.arg, "functions"))

C10_Witness ==
    /\ Created
    /\ TOOL_ENABLED
    /\ Has(call.arg, "tools")
    /\ call.arg["tools"] = <<>>
    /\ ~Has(call.arg, "functions")
    /\ endpoint = "beta.tools.messages"
    /\ sent["tools"] = <<>>

\* --------------------------------------------------------------------- C11
\* the declarations of a request in the order the claim gives them: the
\* legacy `functions`, then the inner `function` of each function entry of
\* `tools`
Declared(request) ==
    LET entries == SelectSeq(Get(request, "tools", <<>>),
                             LAMBDA t : Has(t, "type") /\ t["type"] = "function"
                                        /\ Has(t, "function"))
    IN Get(request, "functions", <<>>) \o [k \in 1..Len(entries) |-> entries[k]["function"]]

\* `sent` is `declaration` with `parameters` renamed to `input_schema`
Renamed(declaration, tool) ==
    /\ Has(declaration, "parameters")
    /\ DOMAIN tool = (DOMAIN declaration \ {"parameters"}) \cup {"input_schema"}
    /\ tool["input_schema"] = declaration["parameters"]
    /\ \A k \in DOMAIN declaration \ {"parameters"} : tool[k] = declaration[k]

\* C11: when the request has `functions` and/or `tools`, the `tools` create
\* sends is the legacy functions in order, then the inner function of each
\* function entry of `tools` in order, each with `parameters` renamed to
\* `input_schema` and its other fields as they were; what is sent has no
\* `functions`; and the caller's declaration dicts are, after the call, what
\* they were before it.
C11_SentToolsAreTheDeclarations ==
    (call.op = "create" /\ (Has(call.arg, "functions") \/ Has(call.arg, "tools")))
    => /\ fault = "none"
          => /\ Has(sent, "tools")
             /\ ~Has(sent, "functions")
             /\ Len(sent["tools"]) = Len(Declared(call.arg))
             /\ \A k \in 1..Len(sent["tools"]) :
                    Renamed(Declared(call.arg)[k], sent["tools"][k])
       /\ Has(params, "functions") => params["functions"] = Declared(call.arg)
       /\ Has(call.arg, "tools")
          => Has(params, "tools") /\ params["tools"] = call.arg["tools"]

C11_Witness ==
    /\ Created
    /\ Has(call.arg, "functions") /\ Len(call.arg["functions"]) = 2
    /\ Has(call.arg, "tools") /\ Len(call.arg["tools"]) = 3
    /\ Len(sent["tools"]) = 4
    /\ sent["tools"][1]["name"] = "search"
    /\ sent["tools"][4]["name"] = "plot"
    /\ Has(sent["tools"][4], "input_schema")

\* --------------------------------------------------------------------- C12
\* C12: create does not change a turn of the caller's: when create has
\* returned or raised, every turn of the list the caller passed as `messages`
\* has the fields and values it had before the call, a turn with empty content
\* included: the sentinel is in the turn sent, not in the caller's.
C12_CallerTurnsUnchanged ==
    (call.op = "create" /\ Has(call.arg, "messages"))
    => /\ caller_messages = call.arg["messages"]
       /\ fault = "none"
          => \A i \in 1..Len(call.arg["messages"]) :
                (/\ call.arg["messages"][i]["role"] \notin {"system", "function"}
                 /\ ~Has(call.arg["messages"][i], "function_call")
                 /\ call.arg["messages"][i]["content"] = Str(""))
                => /\ sent["messages"][OutIndex(call.arg["messages"], i)]["content"] = Str(TERMINATE)
                   /\ caller_messages[i]["content"] = Str("")

C12_Witness ==
    /\ Created
    /\ Len(call.arg["messages"]) = 2
    /\ call.arg["messages"][1] = [role |-> "user", content |-> Str("")]
    /\ call.arg["messages"][2] = [role |-> "user", content |-> Str("42"), name |-> "bob"]
    /\ sent["messages"][1]["content"] = Str(TERMINATE)
    /\ ~Has(sent["messages"][2], "name")
    /\ caller_messages = call.arg["messages"]

\* --------------------------------------------------------------------- C13
\* the turns that read the cache: role `function`, or function_call on a
\* turn that is not a system turn
ReadsCache(turn) ==
    \/ turn["role"] = "function"
    \/ turn["role"] # "system" /\ Has(turn, "function_call")

NothingSent == endpoint = "none" /\ sent = None

\* C13: create raises, calls no transport and leaves the cache as it was
\* when `messages` is empty (IndexError), and when the conversation has a
\* turn that reads the cache while no tool_use block has been handed to
\* message_retrieval, text blocks or nothing having been handed to it
\* (KeyError).
C13_FaultsBeforeTransport ==
    /\ [](call.op = "create"
          => /\ call.arg["messages"] = <<>> => fault = "IndexError" /\ NothingSent
             /\ ( /\ ToolUsesOf(ingested[call.self]) = <<>>
                  /\ \E i \in 1..Len(call.arg["messages"]) :
                        ReadsCache(call.arg["messages"][i]) )
                => fault = "KeyError" /\ NothingSent)
    /\ [][call'.op = "create" => last_tooluse_status' = last_tooluse_status]_vars

C13_Witness ==
    /\ call.op = "create"
    /\ TOOL_ENABLED
    /\ ingested[call.self] = <<TextA>>
    /\ Has(last_tooluse_status[call.self], "think")
    /\ Len(call.arg["messages"]) = 2
    /\ call.arg["messages"][1]["role"] = "user"
    /\ call.arg["messages"][2]["role"] = "function"
    /\ fault = "KeyError"
    /\ NothingSent

\* --------------------------------------------------------------------- C14
\* C14: cost(response) raises nothing and returns an amount that is not
\* negative: (input_tokens * price.input + output_tokens * price.output) /
\* 1_000_000 when the client's model is in the price table, 0 when it is not,
\* and 0 when the response has no usage.
C14_CostIsPricedTokens ==
    call.op = "cost"
    => LET model == ConfigModel[call.self]
           usage == call.arg.usage
       IN /\ fault = "none"
          /\ ret.millionths >= 0
          /\ (model \in DOMAIN ANTHROPIC_PRICE1MM /\ usage # None)
             => ret.millionths = usage.input_tokens * ANTHROPIC_PRICE1MM[model].input
                                 + usage.output_tokens * ANTHROPIC_PRICE1MM[model].output
          /\ model \notin DOMAIN ANTHROPIC_PRICE1MM => ret.millionths = 0
          /\ usage = None => ret.millionths = 0

C14_Witness ==
    /\ call.op = "cost"
    /\ call.self = "A"
    /\ call.arg.usage = [input_tokens |-> 100, output_tokens |-> 50]
    /\ ret.millionths = 100 * 15 + 50 * 75

\* --------------------------------------------------------------------- C15
\* C15: get_usage(response) returns a record of exactly the fields
\* prompt_tokens, completion_tokens, total_tokens, cost and model, with
\* total_tokens the sum of the other two counts, and the three counts 0 when
\* the response has no usage.
C15_UsageRecordShape ==
    call.op = "get_usage"
    => /\ fault = "none"
       /\ DOMAIN ret = {"prompt_tokens", "completion_tokens", "total_tokens",
                        "cost", "model"}
       /\ ret.total_tokens = ret.prompt_tokens + ret.completion_tokens
       /\ call.arg.usage # None
          => /\ ret.prompt_tokens = call.arg.usage.input_tokens
             /\ ret.completion_tokens = call.arg.usage.output_tokens
       /\ call.arg.usage = None
          => /\ ret.prompt_tokens = 0
             /\ ret.completion_tokens = 0
             /\ ret.total_tokens = 0

C15_Witness ==
    /\ call.op = "get_usage"
    /\ call.arg.usage = [input_tokens |-> 100, output_tokens |-> 50]
    /\ ret.prompt_tokens = 100
    /\ ret.completion_tokens = 50
    /\ ret.total_tokens = 150

\* --------------------------------------------------------------------- C16
\* C16, as stated: the `cost` field of get_usage(response) is the value
\* cost(response) returns: the priced tokens on a model in the price table,
\* and 0 on a model not in it.
C16_UsageCostIsComputed ==
    call.op = "get_usage" => ret.cost = cost(call.self, call.arg).value

\* C16, amended: the `cost` field of get_usage(response) is the response's
\* `cost` attribute when the response has one, so the priced tokens when the
\* caller has stored there what cost(response) returned, and 0 when the
\* response has no such attribute, whatever its tokens and model.
C16_UsageCostIsTheAttribute ==
    call.op = "get_usage"
    => /\ Has(call.arg, "cost") => ret.cost = call.arg.cost
       /\ ~Has(call.arg, "cost") => ret.cost = Amount(0)
       /\ (Has(call.arg, "cost") /\ call.arg.cost = cost(call.self, call.arg).value)
          => ret.cost = cost(call.self, call.arg).value

C16_Witness ==
    /\ call.op = "get_usage"
    /\ call.self = "A"
    /\ call.arg.usage = [input_tokens |-> 100, output_tokens |-> 50]
    /\ Has(call.arg, "cost")
    /\ call.arg.cost = cost("A", call.arg).value
    /\ ret.cost.millionths = 100 * 15 + 50 * 75

\* --------------------------------------------------------------------- C17
\* the cache that the responses handed to client c alone leave
OwnCache(c) ==
    LET uses == ToolUsesOf(ingested[c])
        texts == TextsOf(ingested[c])
        think == IF texts = <<>> THEN EmptyDict
                 ELSE Put(EmptyDict, "think", texts[Len(texts)].text)
    IN IF ~TOOL_ENABLED THEN EmptyDict
       ELSE IF uses = <<>> THEN think
       ELSE Put(think, "tool_use", model_dump(uses[Len(uses)]))

\* C17: two clients share no state: whatever the interleaving of their
\* create and message_retrieval calls, a client's cache changes only in its
\* own message_retrieval, and what its create sends, or raises, is what its
\* request and the responses handed to that client alone give.
C17_ClientsAreIndependent ==
    /\ [](call.op = "create"
          => LET own == create(OwnCache(call.self), call.arg)
             IN /\ fault = own.fault
                /\ sent = own.sent)
    /\ [][\A c \in Clients :
            last_tooluse_status'[c] # last_tooluse_status[c]
            => call'.op = "message_retrieval" /\ call'.self = c]_vars

C17_Witness ==
    /\ Created
    /\ TOOL_ENABLED
    /\ call.self = "B"
    /\ ingested["A"] = <<ToolUse1>>
    /\ ingested["B"] = <<ToolUse2, TextA>>
    /\ call.arg["messages"][1]["role"] = "function"
    /\ sent["messages"][1]["content"].xs[1].tool_use_id = ToolUse2.id

\* --------------------------------------------------------------------- C18
\* a turn that stands for a function call: function_call on a turn that is
\* neither a system turn nor a function turn
IsMarker(turn) == turn["role"] \notin {"system", "function"} /\ Has(turn, "function_call")

\* C18: in what create sends, the tool_result block made from a function
\* turn that follows a function_call turn directly is addressed to the id of
\* the tool_use block of the assistant turn sent just before it, however many
\* such pairs the conversation has and whatever was handed to
\* message_retrieval before.
C18_ResultAnswersPrecedingToolUse ==
    Created
    => \A i \in 2..Len(call.arg["messages"]) :
         LET messages == call.arg["messages"]
             k == OutIndex(messages, i)
         IN (messages[i]["role"] = "function" /\ IsMarker(messages[i - 1]))
            => LET result == sent["messages"][k]["content"].xs
                   before == sent["messages"][k - 1]
                   uses == SelectSeq(before["content"].xs, IsToolUse)
               IN /\ before["role"] = "assistant"
                  /\ Len(result) = 1
                  /\ result[1].type = "tool_result"
                  /\ Len(uses) = 1
                  /\ result[1].tool_use_id = uses[1].id

C18_Witness ==
    /\ Created
    /\ ingested["A"] = <<TextA, ToolUse2>>
    /\ Len(call.arg["messages"]) = 4
    /\ IsMarker(call.arg["messages"][1])
    /\ call.arg["messages"][2]["role"] = "function"
    /\ IsMarker(call.arg["messages"][3])
    /\ call.arg["messages"][4]["role"] = "function"
    /\ sent["messages"][2]["content"].xs[1].tool_use_id = ToolUse2.id
    /\ sent["messages"][4]["content"].xs[1].tool_use_id = ToolUse2.id
    /\ Len(sent["messages"][3]["content"].xs) = 2

\* --------------------------------------------------------------------- C19
\* the turn sent for a turn that is not a system turn
TurnSentFor(status, turn) ==
    IF turn["role"] = "function"
    THEN [role |-> "user",
          content |-> List(<<[type |-> "tool_result",
                              tool_use_id |-> status["tool_use"]["id"],
                              content |-> turn["content"]]>>)]
    ELSE IF Has(turn, "function_call") THEN Continuation(status)
    ELSE IF turn["content"] = Str("")
    THEN [k \in DOMAIN turn \cap MessageModelFields |->
            IF k = "content" THEN Str(TERMINATE) ELSE turn[k]]
    ELSE [k \in DOMAIN turn \cap MessageModelFields |-> turn[k]]

\* C19: the `messages` create sends has one turn for each turn of the
\* request that is not a system turn, in the order of the request: as many
\* turns as the request has less its system turns, the k-th of them made from
\* the k-th turn that is not a system turn; with several system turns the
\* `system` field is the content of the last.
C19_OneTurnPerNonSystemTurn ==
    Created
    => LET messages == call.arg["messages"]
           status == last_tooluse_status[call.self]
           system == SystemTurns(messages)
       IN /\ Len(sent["messages"]) = Len(messages) - Cardinality(system)
          /\ \A i \in 1..Len(messages) :
                i \notin system
                => sent["messages"][OutIndex(messages, i)] = TurnSentFor(status, messages[i])
          /\ system # {}
             => /\ Has(sent, "system")
                /\ \E last \in system :
                      /\ \A i \in system : i <= last
                      /\ sent["system"] = messages[last]["content"]

C19_Witness ==
    /\ Created
    /\ call.arg["messages"] = <<[role |-> "user", content |-> Str("")],
                                [role |-> "assistant", content |-> Str("42")]>>
    /\ sent["messages"] = <<[role |-> "user", content |-> Str(TERMINATE)],
                            [role |-> "assistant", content |-> Str("42")]>>

\* --------------------------------------------------------------------- C20
\* C20: create given the same request dict twice in a row sends the same
\* `tools`, the same `system` and the same `messages` both times.
C20_SecondCallSendsTheSame ==
    (call.op = "create" /\ previous # None)
    => /\ fault = "none"
       /\ LET keys == {"tools", "system", "messages"}
          IN Restrict(sent, keys) = Restrict(previous, keys)
====
